---- MODULE Spec2Model ----
(***************************************************************************)
(* State-machine model of the background process of the WebTask Manager    *)
(* extension (src/background.js, class BackgroundTaskManager).             *)
(*                                                                         *)
(* A JavaScript object is a TLA+ function from field names to values; a    *)
(* field the object does not have is a name outside its DOMAIN.  A Map is  *)
(* a function from keys to objects.  Numbers are integers; the non-number  *)
(* results of JavaScript arithmetic are the sentinels below.               *)
(***************************************************************************)
EXTENDS Integers, Sequences, FiniteSets, TLC

\* ------------------------------------------------------------------ bounds
MaxClockSteps == 1      \* how often the clock is advanced by ClockStep
MaxPendingWrites == 1   \* storage writes issued and not yet completed
MaxPendingChanges == 1  \* storage change notifications not yet delivered
MaxTicksInFlight == 1   \* monitoring callbacks started and not yet finished
MetricWindow == 2       \* how far a simulated metric moves from its floor or ceiling
MaxSuspended == 1       \* operations that wait for a host call that never returns
MaxDenominator == 2     \* the times formatTime is given are n / d seconds, d up to this

\* --------------------------------------------------------------- universes
TabIds == {1, 2}
DownloadIds == {1}

Hour == 60 * 60 * 1000
StartTime == 48 * Hour          \* Date.now() when the process starts
ClockStep == 25 * Hour          \* granularity of the modelled clock

\* ------------------------------------------------- JavaScript number values
\* The three values below stand outside the range of the numbers of the model.
Undefined == 0 - 1000001        \* reading a field an object does not have
NaN == 0 - 1000002
Null == 0 - 1000003             \* what a non-finite number becomes in storage

IsNumber(v) == v > 0 - 1000000
Truthy(v) == IsNumber(v) /\ v # 0   \* 0, NaN, null and undefined are falsy
ToNumber(v) == IF v = Null THEN 0 ELSE IF v = Undefined THEN NaN ELSE v

JsAdd(a, b) == IF ToNumber(a) = NaN \/ ToNumber(b) = NaN THEN NaN
               ELSE ToNumber(a) + ToNumber(b)
JsSub(a, b) == IF ToNumber(a) = NaN \/ ToNumber(b) = NaN THEN NaN
               ELSE ToNumber(a) - ToNumber(b)
\* a > b on numbers: false whenever an operand is NaN
JsGreater(a, b) == /\ ToNumber(a) # NaN
                   /\ ToNumber(b) # NaN
                   /\ ToNumber(a) > ToNumber(b)
\* Math.max / Math.min: NaN when an operand is NaN
MathMax(a, b) == IF ToNumber(a) = NaN \/ ToNumber(b) = NaN THEN NaN
                 ELSE IF ToNumber(a) >= ToNumber(b) THEN ToNumber(a) ELSE ToNumber(b)
MathMin(a, b) == IF ToNumber(a) = NaN \/ ToNumber(b) = NaN THEN NaN
                 ELSE IF ToNumber(a) <= ToNumber(b) THEN ToNumber(a) ELSE ToNumber(b)
\* a || b
JsOr(a, b) == IF Truthy(a) THEN a ELSE b

\* ------------------------------------------------------ JavaScript objects
EmptyObject == << >>
Has(obj, f) == f \in DOMAIN obj
Field(obj, f) == IF Has(obj, f) THEN obj[f] ELSE Undefined
\* { ...base, ...over }
Spread(base, over) == over @@ base
\* obj.f = v
Assign(obj, f, v) == (f :> v) @@ obj

\* ---------------------------------------------------------- Map operations
EmptyMap == << >>
MapHas(m, k) == k \in DOMAIN m
MapSet(m, k, v) == (k :> v) @@ m
MapDelete(m, k) == [x \in DOMAIN m \ {k} |-> m[x]]
\* A lookup that starts a missing record from default fields, to compare with.
MapGetOrDefaults(m, k) == IF MapHas(m, k) THEN m[k] ELSE [bytesReceived |-> 0]

\* map.get(k) || {}
MapGetOrEmpty(m, k) == IF MapHas(m, k) THEN m[k] ELSE EmptyObject

\* ------------------------------------------------------------------- state
VARIABLES
    now,            \* Date.now()
    scenario,       \* what the environment does in this behaviour
    hostTabs,       \* ids of the tabs open in the host
    closedTabs,     \* ids of the tabs the host has closed (an id is never reused)
    hostDownloads,  \* ids of the downloads the host has announced
    tabStats,       \* this.tabStats
    downloadStats,  \* this.downloadStats
    storage,        \* chrome.storage.local: key -> stored item
    pendingWrites,  \* chrome.storage.local.set calls not yet completed
    pendingChanges, \* chrome.storage.onChanged notifications not yet delivered
    monitoringInterval, \* this.monitoringInterval: the timer of the loop
    ticks,          \* monitoring callbacks in flight: [pc, tabs]
    message,        \* the handleMessage call in flight or finished last
    console,        \* the messages written with console.error
    suspended,      \* the operations that wait for a host call that never returns
    formatted       \* a call of formatTime: its argument and what it returned

vars == <<now, scenario, hostTabs, closedTabs, hostDownloads, tabStats,
          downloadStats, storage, pendingWrites, pendingChanges,
          monitoringInterval, ticks, message, console, suspended, formatted>>

\* ------------------------------------------------------------ host inputs
PageA == [title |-> "A", url |-> "u1"]
PageB == [title |-> "B", url |-> "u2"]
Pages == {PageA, PageB}

DownloadItems ==
    [id : DownloadIds, filename : {"f"}, url : {"d"}, state : {"in_progress"},
     bytesReceived : {50}, totalBytes : {0, 200}]

\* A DownloadDelta carries id and, for each field that changed, {current: value};
\* a field that did not change is not in the delta (present = FALSE).
NoChange(v) == [present |-> FALSE, current |-> v]
Change(v) == [present |-> TRUE, current |-> v]
DownloadDeltas ==
    [id : DownloadIds,
     state : {NoChange(""), Change("complete")},
     bytesReceived : {NoChange(0), Change(300)},
     totalBytes : {NoChange(0), Change(200)}]

\* --------------------------------------------------------- stored items
StorageKeys == {"tabStats", "downloadStats"}
\* The keys of the local area: the two lists and the settings of the install.
AreaKeys == StorageKeys \cup {"settings"}
NoValue == [present |-> FALSE, value |-> << >>]
Stored(list) == [present |-> TRUE, value |-> list]
\* item.newValue || []
ValueOrEmptyList(item) == IF item.present THEN item.value ELSE << >>

\* What the storage area keeps of a number: a non-finite number is kept as null.
SerializeValue(v) == IF v = NaN THEN Null ELSE v
Serialize(obj) == [f \in DOMAIN obj |->
                     IF f \in {"title", "url", "filename", "state"} THEN obj[f]
                     ELSE SerializeValue(obj[f])]

RECURSIVE SortedKeys(_)
SortedKeys(S) == IF S = {} THEN << >>
                 ELSE LET k == CHOOSE x \in S : \A y \in S : x <= y
                      IN <<k>> \o SortedKeys(S \ {k})

\* Array.from(map.entries()), as the storage area keeps it
Entries(m) == LET ks == SortedKeys(DOMAIN m)
              IN [i \in 1..Len(ks) |-> <<ks[i], Serialize(m[ks[i]])>>]

\* new Map(list): the last pair of a key wins
MapFromEntries(list) ==
    LET keys == {list[i][1] : i \in 1..Len(list)}
        lastOf(k) == CHOOSE i \in 1..Len(list) :
                        /\ list[i][1] = k
                        /\ \A j \in 1..Len(list) : list[j][1] = k => j <= i
    IN [k \in keys |-> list[lastOf(k)][2]]

\* No message has arrived yet.
NoMessage ==
    [phase |-> "idle", request |-> [action |-> "none", tabId |-> 1, downloadId |-> 1],
     system |-> {},
     call |-> 0, thrown |-> "none", listing |-> << >>, stored |-> << >>,
     data |-> << >>, responses |-> << >>]

\* formatTime has not been called.
NotCalled == [seconds |-> <<0, 1>>, text |-> [value |-> 0, unit |-> "none"]]

\* The constructor leaves both maps empty; tab 1 was opened before the process
\* started.  In one behaviour the host acts on tabs, or on downloads, or other
\* contexts write the storage area.
Constructed ==
    /\ now = StartTime
    /\ scenario \in {"tabs", "downloads", "storage"}
    /\ hostTabs = {1}
    /\ closedTabs = {}
    /\ hostDownloads = {}
    /\ tabStats = EmptyMap
    /\ downloadStats = EmptyMap
    /\ storage = [k \in AreaKeys |-> NoValue]
    /\ pendingWrites = << >>
    /\ pendingChanges = << >>
    /\ monitoringInterval = "interval"
    /\ ticks = << >>
    /\ message = NoMessage
    /\ console = {}
    /\ suspended = {}

Init == Constructed /\ formatted = NotCalled

\* The process started on a host where only downloads, or only the storage
\* area and the popup, are active.
InitDownloads == Init /\ scenario = "downloads"
InitStorage == Init /\ scenario = "storage"

\* Time passes.
AdvanceClock ==
    /\ now < StartTime + MaxClockSteps * ClockStep
    /\ now' = now + ClockStep
    /\ UNCHANGED <<suspended, formatted, monitoringInterval, message, console, scenario, hostTabs, closedTabs, hostDownloads, tabStats,
                   downloadStats, storage, pendingWrites, pendingChanges, ticks>>

\* ------------------------------------------------------- storage writes
\* await chrome.storage.local.set({ [key]: list }): the call is issued now and
\* completes later (StorageSetCompletes).
CanWrite == Len(pendingWrites) < MaxPendingWrites
IssueWrite(writes, key, list) == Append(writes, [key |-> key, value |-> list])

\* A write of the tab records under the key of the downloads, to compare with.
updateStoredStatsUnderDownloadKey(writes, stats) ==
    IssueWrite(writes, "downloadStats", Entries(stats))

\* updateStoredStats / updateStoredDownloadStats up to their await
updateStoredStats(writes, stats) == IssueWrite(writes, "tabStats", Entries(stats))
updateStoredDownloadStats(writes, stats) ==
    IssueWrite(writes, "downloadStats", Entries(stats))

\* ------------------------------------------------------------ tab events
\* Each handler below runs as soon as the host emits its event.
TabCreatedRecord(tab, time) ==
    [id |-> tab.id, title |-> tab.title, url |-> tab.url, createdAt |-> time,
     memoryUsage |-> 0, cpuUsage |-> 0]

\* A handler that keeps the record an id already has, to compare with.
TabCreatedStatsKeepsRecord(stats, tab, time) ==
    IF MapHas(stats, tab.id) THEN stats
    ELSE MapSet(stats, tab.id, TabCreatedRecord(tab, time))

\* this.tabStats.set(tab.id, { ... })
TabCreatedStats(stats, tab, time) == MapSet(stats, tab.id, TabCreatedRecord(tab, time))

\* The host opens tab t showing page and emits chrome.tabs.onCreated.
onTabCreated(t, page) ==
    /\ t \notin hostTabs \cup closedTabs
    /\ CanWrite
    /\ hostTabs' = hostTabs \cup {t}
    /\ LET tab == [id |-> t, title |-> page.title, url |-> page.url]
           stats == TabCreatedStats(tabStats, tab, now)
       IN /\ tabStats' = stats
          /\ pendingWrites' = updateStoredStats(pendingWrites, stats)
    /\ UNCHANGED <<suspended, formatted, monitoringInterval, message, console, now, scenario, closedTabs, hostDownloads, downloadStats, storage,
                   pendingChanges, ticks>>

\* A removal by position, which takes the last record when the id has none
\* (splice(indexOf(id), 1) on a list of records), to compare with.
TabRemovedStatsByPosition(stats, tabId) ==
    IF MapHas(stats, tabId) \/ stats = EmptyMap THEN MapDelete(stats, tabId)
    ELSE MapDelete(stats, CHOOSE k \in DOMAIN stats : \A j \in DOMAIN stats : j <= k)

\* A removal that keeps the record, to compare with.
TabRemovedStatsKeepsRecord(stats, tabId) == stats

TabRemovedStats(stats, tabId) == MapDelete(stats, tabId)

\* The host closes tab t and emits chrome.tabs.onRemoved.
onTabRemoved(t) ==
    /\ t \in hostTabs
    /\ CanWrite
    /\ hostTabs' = hostTabs \ {t}
    /\ closedTabs' = closedTabs \cup {t}
    /\ LET stats == TabRemovedStats(tabStats, t)
       IN /\ tabStats' = stats
          /\ pendingWrites' = updateStoredStats(pendingWrites, stats)
    /\ UNCHANGED <<suspended, formatted, monitoringInterval, message, console, now, scenario, hostDownloads, downloadStats, storage,
                   pendingChanges, ticks>>

\* A record built without the fields of the existing one, to compare with.
TabUpdatedRecordWithoutSpread(existingStats, tabId, tab, time) ==
    [id |-> tabId, title |-> tab.title, url |-> tab.url, lastUpdated |-> time]

TabUpdatedRecord(existingStats, tabId, tab, time) ==
    Spread(existingStats,
           [id |-> tabId, title |-> tab.title, url |-> tab.url, lastUpdated |-> time])

\* An update that passes over a tab without a record, to compare with.
TabUpdatedStatsOfTrackedOnly(stats, tabId, status, tab, time) ==
    IF status = "complete" /\ MapHas(stats, tabId)
    THEN MapSet(stats, tabId, TabUpdatedRecord(stats[tabId], tabId, tab, time))
    ELSE stats

TabUpdatedStats(stats, tabId, status, tab, time) ==
    IF status = "complete"
    THEN MapSet(stats, tabId,
                TabUpdatedRecord(MapGetOrEmpty(stats, tabId), tabId, tab, time))
    ELSE stats

\* Tab t navigates to page or finishes loading it; the host emits
\* chrome.tabs.onUpdated with changeInfo.status = status.
onTabUpdated(t, page, status) ==
    /\ t \in hostTabs
    /\ tabStats' = TabUpdatedStats(tabStats, t, status, page, now)
    /\ IF status = "complete"
       THEN /\ CanWrite
            /\ pendingWrites' = updateStoredStats(pendingWrites, tabStats')
       ELSE UNCHANGED pendingWrites
    /\ UNCHANGED <<suspended, formatted, monitoringInterval, message, console, now, scenario, hostTabs, closedTabs, hostDownloads, downloadStats,
                   storage, pendingChanges, ticks>>

\* ------------------------------------------------------- download events
DownloadCreatedRecord(item, time) ==
    [id |-> item.id, filename |-> item.filename, url |-> item.url,
     state |-> item.state, bytesReceived |-> item.bytesReceived,
     totalBytes |-> item.totalBytes, createdAt |-> time]

\* The host starts download item.id and emits chrome.downloads.onCreated.
onDownloadCreated(item) ==
    /\ item.id \notin hostDownloads
    /\ CanWrite
    /\ hostDownloads' = hostDownloads \cup {item.id}
    /\ LET stats == MapSet(downloadStats, item.id, DownloadCreatedRecord(item, now))
       IN /\ downloadStats' = stats
          /\ pendingWrites' = updateStoredDownloadStats(pendingWrites, stats)
    /\ UNCHANGED <<suspended, formatted, monitoringInterval, message, console, now, scenario, hostTabs, closedTabs, tabStats, storage,
                   pendingChanges, ticks>>

\* An assignment that does not look whether the delta carries f, to compare with.
ApplyDeltaFieldUnconditionally(stats, delta, f) == Assign(stats, f, delta[f].current)

\* if (delta.f) existingStats.f = delta.f.current
ApplyDeltaField(stats, delta, f) ==
    IF delta[f].present THEN Assign(stats, f, delta[f].current) ELSE stats

DownloadChangedRecord(existingStats, delta, time) ==
    LET s1 == ApplyDeltaField(existingStats, delta, "state")
        s2 == ApplyDeltaField(s1, delta, "bytesReceived")
        s3 == ApplyDeltaField(s2, delta, "totalBytes")
    IN Assign(s3, "lastUpdated", time)

\* A download changes (one started before the process did, too); the host emits
\* chrome.downloads.onChanged.
onDownloadChanged(delta) ==
    /\ CanWrite
    /\ LET existingStats == MapGetOrEmpty(downloadStats, delta.id)
           stats == MapSet(downloadStats, delta.id,
                           DownloadChangedRecord(existingStats, delta, now))
       IN /\ downloadStats' = stats
          /\ pendingWrites' = updateStoredDownloadStats(pendingWrites, stats)
    /\ UNCHANGED <<suspended, formatted, monitoringInterval, message, console, now, scenario, hostTabs, closedTabs, hostDownloads, tabStats,
                   storage, pendingChanges, ticks>>

\* ------------------------------------------------------ inbound messages
MessageActions == {"getTabStats", "getDownloadStats", "getSystemStats", "closeTab",
                   "focusTab", "pauseDownload", "resumeDownload", "cancelDownload"}
QueryActions == {"getTabStats", "getDownloadStats", "getSystemStats"}
\* Actions the switch has no case for.
UnknownActions == {"reloadTab", "gettabstats"}
Requests == [action : MessageActions \cup UnknownActions, tabId : TabIds,
             downloadId : DownloadIds]
\* The messages of the exceptions a host call may throw.
HostErrors == {"No tab with id", "Extension context invalidated"}

\* A switch that does not tell 'gettabstats' from 'getTabStats', to compare with.
HostCallsIgnoringCase(action) ==
    IF action \in MessageActions \cup {"gettabstats"} THEN <<"tabs.query">> ELSE << >>

\* The host calls the case of an action awaits, in order; getEnhancedTabStats
\* goes on with one call for each tab of the listing (Calls).
HostCalls(action) ==
    CASE action = "getTabStats" -> <<"tabs.query">>
      [] action = "getDownloadStats" -> <<"downloads.search">>
      [] action = "getSystemStats" -> <<"system.cpu.getInfo", "tabs.query",
                                        "downloads.search", "system.memory.getInfo">>
      [] action = "closeTab" -> <<"tabs.remove">>
      [] action = "focusTab" -> <<"tabs.update", "tabs.get", "windows.update">>
      [] action = "pauseDownload" -> <<"downloads.pause">>
      [] action = "resumeDownload" -> <<"downloads.resume">>
      [] action = "cancelDownload" -> <<"downloads.cancel">>
      [] OTHER -> << >>

\* A getSystemStats without its try / catch, to compare with.
CaughtNowhere(action) == FALSE

\* getSystemStats catches what its host calls throw and falls back to random values.
CaughtInside(action) == action = "getSystemStats"

\* What the host needs to resolve a call on a tab.
CanResolve(call, request) ==
    CASE call = "tabs.remove" -> request.tabId \in closedTabs
      [] call \in {"tabs.update", "tabs.get"} -> request.tabId \in hostTabs
      [] OTHER -> TRUE

\* ---------------------------------------------------------------- queries
\* The texts getEnhancedTabStats puts in memoryUsage and cpuUsage, told apart
\* from every number: 'N/A', the formatted figures of the process of the tab, and
\* the random figures of the catch block.
NotAvailable == 0 - 1000004
MeasuredMemory == 0 - 1000005
EstimatedMemory == 0 - 1000006
MeasuredCpu == 0 - 1000007
EstimatedCpu == 0 - 1000008
\* How the figures of one tab were got: chrome.processes is missing or has
\* nothing for the tab, it returned the process, or it threw.
MemoryText(source) ==
    CASE source = "measured" -> MeasuredMemory
      [] source = "estimated" -> EstimatedMemory
      [] OTHER -> NotAvailable
CpuText(source) ==
    CASE source = "measured" -> MeasuredCpu
      [] source = "estimated" -> EstimatedCpu
      [] OTHER -> NotAvailable

\* What chrome.tabs.query({}) resolves with: the open tabs, each with the title
\* and url it shows now (the host reports a change of title without a status)
\* and whether it is the active tab of its window.
HostTab(t, page, active) ==
    [id |-> t, title |-> page.title, url |-> page.url, active |-> active]
HostTabObjects == {HostTab(t, page, active) : t \in TabIds, page \in Pages,
                                              active \in BOOLEAN}
TabListings(open) ==
    LET ids == SortedKeys(open)
    IN {listing \in [1..Len(ids) -> HostTabObjects] :
           \A i \in 1..Len(ids) : listing[i].id = ids[i]}

\* { ...tab, ...storedStats, memoryUsage, cpuUsage, isActive: tab.active }
EnhancedTab(tab, storedStats, source) ==
    Spread(Spread(tab, storedStats),
           [memoryUsage |-> MemoryText(source), cpuUsage |-> CpuText(source),
            isActive |-> tab.active])

\* startTime of a DownloadItem is an ISO 8601 text; the model keeps the two
\* digits in which the texts of one listing differ, and the instant they name.
StartTimes == {<<0, 9>>, <<1, 0>>}
Instant(text) == 10 * text[1] + text[2]
\* a.localeCompare(b) on such texts: character by character
LocaleCompare(a, b) ==
    IF a[1] # b[1] THEN (IF a[1] < b[1] THEN 0 - 1 ELSE 1)
    ELSE IF a[2] # b[2] THEN (IF a[2] < b[2] THEN 0 - 1 ELSE 1)
    ELSE 0

\* What chrome.downloads.search({ limit: 100 }) resolves with: download 1, which
\* the process may track, and download 2 of an earlier session, in any order;
\* the host leaves totalBytes out, or reports 0, when it does not know the size.
ListedDownloadIds == {1, 2}
HostDownload(d, startTime, bytesReceived) ==
    [id |-> d, startTime |-> startTime, bytesReceived |-> bytesReceived]
HostDownloadObjects ==
    LET sized == {Assign(HostDownload(1, st, b), "totalBytes", tb) :
                     st \in StartTimes, b \in {50, 100}, tb \in {0, 200}}
        unsized == {HostDownload(1, st, 50) : st \in StartTimes}
        earlier == {Assign(HostDownload(2, st, 50), "totalBytes", 200) :
                       st \in StartTimes}
    IN sized \cup unsized \cup earlier
DownloadListings ==
    {<< >>} \cup {<<a>> : a \in HostDownloadObjects}
            \cup {pair \in HostDownloadObjects \X HostDownloadObjects :
                     pair[1].id # pair[2].id}

\* download.bytesReceived && download.totalBytes
\*     ? (download.bytesReceived / download.totalBytes) * 100 : 0
\* (the quotients of the model are whole numbers)
Progress(download) ==
    IF Truthy(Field(download, "bytesReceived")) /\ Truthy(Field(download, "totalBytes"))
    THEN (download.bytesReceived * 100) \div download.totalBytes
    ELSE 0

\* The numbers the utility functions work on are quotients: <<n, d>> is n / d,
\* with d > 0, in lowest terms. Math.round rounds to the nearest whole number,
\* halves upwards.
RECURSIVE Divisor(_, _)
Divisor(a, b) == IF b = 0 THEN a ELSE Divisor(b, a % b)
Quotient(n, d) ==
    LET g == Divisor(IF n < 0 THEN 0 - n ELSE n, d) IN <<n \div g, d \div g>>
Less(q, whole) == q[1] < whole * q[2]
MathRound(n, d) == (2 * n + d) \div (2 * d)

\* The texts the utility functions return: a number and the unit after it; the
\* number of a size is kept in tenths, as toFixed(1) leaves it.
Text(value, unit) == [value |-> value, unit |-> unit]
NotAvailableText == [text |-> "N/A"]

\* formatTime without the minutes branch, to compare with.
formatTimeInSecondsOrHours(seconds) ==
    IF Less(seconds, 3600) THEN Text(MathRound(seconds[1], seconds[2]), "s")
    ELSE Text(MathRound(seconds[1], 3600 * seconds[2]), "h")

\* formatTime(seconds)
formatTime(seconds) ==
    IF Less(seconds, 60) THEN Text(MathRound(seconds[1], seconds[2]), "s")
    ELSE IF Less(seconds, 3600) THEN Text(MathRound(seconds[1], 60 * seconds[2]), "m")
    ELSE Text(MathRound(seconds[1], 3600 * seconds[2]), "h")

\* const k = 1024 (Kilo here); const sizes = ['B', 'KB', 'MB', 'GB']
Kilo == 1024
sizes == <<"B", "KB", "MB", "GB">>
RECURSIVE MathPow(_, _)
MathPow(base, exponent) == IF exponent = 0 THEN 1 ELSE base * MathPow(base, exponent - 1)
\* Math.floor(Math.log(bytes) / Math.log(k)) of a positive number: below zero
\* when bytes is less than 1
RECURSIVE ExponentUp(_, _)
ExponentUp(bytes, i) ==
    IF Less(bytes, MathPow(Kilo, i + 1)) THEN i ELSE ExponentUp(bytes, i + 1)
RECURSIVE ExponentDown(_, _)
ExponentDown(bytes, i) ==
    IF bytes[1] * MathPow(Kilo, i) >= bytes[2] THEN 0 - i ELSE ExponentDown(bytes, i + 1)
Exponent(bytes) ==
    IF Less(bytes, 1) THEN ExponentDown(bytes, 1) ELSE ExponentUp(bytes, 0)

\* formatBytes(bytes), for bytes that is not negative; sizes[i] is undefined
\* when i is not an index of sizes
formatBytes(bytes) ==
    IF bytes[1] = 0 THEN Text(0, "B")
    ELSE LET i == Exponent(bytes)
             tenths == IF i >= 0
                       THEN MathRound(10 * bytes[1], bytes[2] * MathPow(Kilo, i))
                       ELSE MathRound(10 * bytes[1] * MathPow(Kilo, 0 - i), bytes[2])
         IN Text(tenths, IF i \in 0..(Len(sizes) - 1) THEN sizes[i + 1]
                         ELSE "undefined")

\* calculateDownloadSpeed(downloadId): 'N/A', or formatBytes(speed) + '/s'
calculateDownloadSpeed(stats, downloadId, time) ==
    LET record == MapGetOrEmpty(stats, downloadId)
    IN IF \/ ~MapHas(stats, downloadId)
          \/ ~Truthy(Field(record, "lastUpdated"))
          \/ ~Truthy(Field(record, "bytesReceived"))
       THEN NotAvailableText
       ELSE IF time - record.lastUpdated < 1000 THEN NotAvailableText
       ELSE formatBytes(Quotient(record.bytesReceived * 1000,
                                 time - record.lastUpdated))

\* A check of the totals that lets every record through, to compare with.
TotalsAssumed(record) == TRUE

\* !stats.totalBytes || !stats.bytesReceived, negated
TotalsKnown(record) ==
    Truthy(Field(record, "totalBytes")) /\ Truthy(Field(record, "bytesReceived"))

\* stats.state !== 'in_progress', negated
InProgress(record) == Has(record, "state") /\ record.state = "in_progress"

\* The switch on the unit of the speed: what one of the unit is in bytes.
UnitBytes(unit) ==
    CASE unit = "KB" -> 1024
      [] unit = "MB" -> 1024 * 1024
      [] unit = "GB" -> 1024 * 1024 * 1024
      [] OTHER -> 1

\* calculateTimeRemaining(downloadId): the speed is read back from its text
calculateTimeRemaining(stats, downloadId, time) ==
    LET record == MapGetOrEmpty(stats, downloadId)
        speed == calculateDownloadSpeed(stats, downloadId, time)
    IN IF \/ ~MapHas(stats, downloadId)
          \/ ~TotalsKnown(record)
          \/ ~InProgress(record)
       THEN NotAvailableText
       ELSE IF speed = NotAvailableText THEN NotAvailableText
       ELSE formatTime(Quotient(
                (Field(record, "totalBytes") - record.bytesReceived) * 10,
                speed.value * UnitBytes(speed.unit)))

EnhancedDownload(download, stats, time) ==
    Spread(Spread(download, MapGetOrEmpty(stats, download.id)),
           [progress |-> Progress(download),
            speed |-> calculateDownloadSpeed(stats, download.id, time),
            estimatedTimeRemaining |->
                calculateTimeRemaining(stats, download.id, time)])

\* A comparator that puts the earlier start first, to compare with.
CompareAscending(a, b) == LocaleCompare(a.startTime, b.startTime)

\* (a, b) => b.startTime.localeCompare(a.startTime)
CompareStartTime(a, b) == LocaleCompare(b.startTime, a.startTime)

\* Array.prototype.sort with that comparator: stable.
RECURSIVE Insert(_, _)
Insert(sorted, e) ==
    IF sorted = << >> THEN <<e>>
    ELSE IF CompareStartTime(sorted[Len(sorted)], e) <= 0 THEN Append(sorted, e)
    ELSE Append(Insert(SubSeq(sorted, 1, Len(sorted) - 1), e), sorted[Len(sorted)])
RECURSIVE Sort(_)
Sort(list) ==
    IF list = << >> THEN << >>
    ELSE Insert(Sort(SubSeq(list, 1, Len(list) - 1)), list[Len(list)])

getEnhancedDownloadStats(downloads, stats, time) ==
    Sort([i \in 1..Len(downloads) |-> EnhancedDownload(downloads[i], stats, time)])

\* The parts of chrome.system the host may offer, and the calls getSystemStats
\* awaits with them: if (chrome.system && chrome.system.cpu) { ... }
\* if (chrome.system && chrome.system.memory) { ... }
SystemParts == {"cpu", "memory"}
SystemCalls(system) ==
    (IF "cpu" \in system
     THEN <<"system.cpu.getInfo", "tabs.query", "downloads.search">> ELSE << >>)
    \o (IF "memory" \in system THEN <<"system.memory.getInfo">> ELSE << >>)

\* The calls a message awaits, as far as they are known.
Calls(msg) ==
    CASE msg.request.action = "getTabStats" ->
            <<"tabs.query">>
               \o [i \in 1..Len(msg.listing) |-> "processes.getProcessInfo"]
      [] msg.request.action = "getSystemStats" -> SystemCalls(msg.system)
      [] OTHER -> HostCalls(msg.request.action)

\* What chrome.downloads.search({ state: 'in_progress' }) resolves with: the
\* host lists the downloads of every session, none, one or many.
InProgressCounts == {0, 1, 18}
InProgressListings == {[i \in 1..n |-> [id |-> i]] : n \in InProgressCounts}
\* What chrome.system.memory.getInfo() resolves with.
MemoryInfos == {[capacity |-> 8, availableCapacity |-> a] : a \in {0, 3, 8}}

\* What a call may resolve with.
HostResults(call, action) ==
    CASE call = "tabs.query" -> TabListings(hostTabs)
      [] call = "downloads.search" /\ action = "getSystemStats" -> InProgressListings
      [] call = "downloads.search" -> DownloadListings
      [] call = "processes.getProcessInfo" -> {"none", "measured"}
      [] call = "system.memory.getInfo" -> MemoryInfos
      [] OTHER -> {"done"}

\* Math.random() * 20, Math.floor(Math.random() * 60 + 20) and
\* Math.floor(Math.random() * 40 + 30): the ends of their ranges, in whole numbers
Noise == {0, 19}
FallbackCpu == {20, 79}
FallbackMemory == {30, 69}

\* const stats = { cpu: 0, memory: 0, timestamp: Date.now() }
InitialData(action, time) ==
    IF action = "getSystemStats" THEN [cpu |-> 0, memory |-> 0, timestamp |-> time]
    ELSE << >>

\* The estimate without its bounds, to compare with.
CpuEstimateUnbounded(tabCount, downloadCount, random) ==
    tabCount * 2 + downloadCount * 5 + random

\* Math.min(90, Math.max(5, tabCount * 2 + downloadCount * 5 + Math.random() * 20))
CpuEstimate(tabCount, downloadCount, random) ==
    MathMin(90, MathMax(5, tabCount * 2 + downloadCount * 5 + random))

\* Math.round((usedMemory / memoryInfo.capacity) * 100)
MemoryPercent(memoryInfo) ==
    MathRound((memoryInfo.capacity - memoryInfo.availableCapacity) * 100,
              memoryInfo.capacity)

\* const storedStats = this.tabStats.get(tab.id) || {}, for the tab the loop of
\* getEnhancedTabStats comes to
StoredFor(listing, i, stats) ==
    IF i <= Len(listing) THEN MapGetOrEmpty(stats, listing[i].id) ELSE EmptyObject

\* The message once the call it awaits has given value.
AfterCall(msg, call, value, stats, dstats, time, random) ==
    CASE call = "tabs.query" /\ msg.request.action = "getTabStats" ->
            [msg EXCEPT !.listing = value, !.stored = StoredFor(value, 1, stats)]
      [] call = "processes.getProcessInfo" ->
            [msg EXCEPT
               !.data = Append(@, EnhancedTab(msg.listing[msg.call - 1], msg.stored,
                                              value)),
               !.stored = StoredFor(msg.listing, msg.call, stats)]
      [] call = "downloads.search" /\ msg.request.action = "getDownloadStats" ->
            [msg EXCEPT !.listing = value,
                        !.data = getEnhancedDownloadStats(value, dstats, time)]
      [] call = "tabs.query" /\ msg.request.action = "getSystemStats" ->
            [msg EXCEPT !.listing = value]
      [] call = "downloads.search" /\ msg.request.action = "getSystemStats" ->
            [msg EXCEPT !.data.cpu = CpuEstimate(Len(msg.listing), Len(value), random)]
      [] call = "system.memory.getInfo" ->
            [msg EXCEPT !.data.memory = MemoryPercent(value)]
      [] OTHER -> msg

\* sendResponse({ success: true, data }) or sendResponse({ success: true })
RespondSuccess(responses, action, data) ==
    Append(responses,
           IF action \in QueryActions
           THEN [success |-> TRUE, data |-> data]
           ELSE [success |-> TRUE])

\* A catch block that sends nothing, to compare with.
RespondNothing(responses, error) == responses

\* sendResponse({ success: false, error })
RespondFailure(responses, error) ==
    Append(responses, [success |-> FALSE, error |-> error])

\* The next await of the handler, or its response when nothing is left to await.
Proceed(msg) ==
    IF msg.call < Len(Calls(msg))
    THEN [msg EXCEPT !.call = msg.call + 1]
    ELSE [msg EXCEPT
            !.phase = "finished",
            !.responses = RespondSuccess(msg.responses, msg.request.action, msg.data)]

\* A process that starts nothing while an operation waits, to compare with.
StartsWhenNoneWaits(waiting) == waiting = {}

\* The listener of chrome.runtime.onMessage and the callback of setInterval are
\* called whatever the calls made before them wait for: nothing in the process
\* tells a new call of an earlier one.
Starts(waiting) == TRUE

\* An operation that waits for the settlement of a host call that never comes.
Waiting(operation, call, time) == [operation |-> operation, call |-> call, since |-> time]

\* chrome.runtime.onMessage: handleMessage runs up to its first await, or to its
\* end when it has none: for an action the switch does not know, and for
\* getSystemStats on a host without chrome.system.cpu and chrome.system.memory.
handleMessage(request) ==
    /\ message.phase # "awaiting"
    /\ Starts(suspended)
    /\ \E system \in (IF request.action = "getSystemStats" THEN SUBSET SystemParts
                       ELSE {{}}) :
          message' =
             IF HostCalls(request.action) # << >>
             THEN Proceed([phase |-> "awaiting", request |-> request,
                           system |-> system, call |-> 0,
                           thrown |-> "none", listing |-> << >>,
                           stored |-> EmptyObject,
                           data |-> InitialData(request.action, now),
                           responses |-> << >>])
             ELSE [phase |-> "finished", request |-> request, system |-> system,
                   call |-> 0,
                   thrown |-> "none", listing |-> << >>, stored |-> EmptyObject,
                   data |-> << >>,
                   responses |-> RespondFailure(<< >>, "Unknown action")]
    /\ UNCHANGED <<suspended, formatted, monitoringInterval, console, now, scenario, hostTabs, closedTabs, hostDownloads,
                   tabStats, downloadStats, storage, pendingWrites, pendingChanges,
                   ticks>>

\* A query that marks the records it reads as seen, to compare with.
TabStatsSeenByCall(stats, call, time) ==
    IF call = "tabs.query"
    THEN [t \in DOMAIN stats |-> Assign(stats[t], "lastSeen", time)]
    ELSE stats

\* handleMessage and the query methods read this.tabStats (this.tabStats.get)
\* and neither assign it nor call set or delete on it.
TabStatsAfterCall(stats, call, time) == stats

\* The host call handleMessage waits for resolves: the next call, or the response.
HostCallResolves ==
    /\ message.phase = "awaiting"
    /\ LET call == Calls(message)[message.call]
       IN /\ CanResolve(call, message.request)
          /\ \E value \in HostResults(call, message.request.action), random \in Noise :
                message' = Proceed(AfterCall(message, call, value, tabStats,
                                             downloadStats, now, random))
          /\ tabStats' = TabStatsAfterCall(tabStats, call, now)
    /\ UNCHANGED <<suspended, formatted, monitoringInterval, console, now, scenario, hostTabs, closedTabs, hostDownloads,
                   downloadStats, storage, pendingWrites, pendingChanges,
                   ticks>>

\* The host call handleMessage waits for never settles: the handler goes no
\* further and answers nothing; later messages are handled as before.
HostCallHangs ==
    /\ message.phase = "awaiting"
    /\ Cardinality(suspended) < MaxSuspended
    /\ suspended' = suspended \cup {Waiting("handleMessage",
                                             Calls(message)[message.call], now)}
    /\ message' = [message EXCEPT !.phase = "suspended"]
    /\ UNCHANGED <<formatted, monitoringInterval, console, now, scenario, hostTabs,
                   closedTabs, hostDownloads, tabStats, downloadStats, storage,
                   pendingWrites, pendingChanges, ticks>>

\* The host call throws: into the catch block of the loop of getEnhancedTabStats,
\* which goes on with estimated figures, into the catch block of getSystemStats,
\* which answers with fallback values, or into the catch block of handleMessage.
HostCallRejects(error) ==
    /\ message.phase = "awaiting"
    /\ LET call == Calls(message)[message.call]
       IN IF call = "processes.getProcessInfo"
          THEN /\ message' = Proceed(AfterCall(message, call, "estimated", tabStats,
                                               downloadStats, now, 0))
               /\ UNCHANGED console
          ELSE IF CaughtInside(message.request.action)
          THEN /\ console' = console \cup {"Error getting system stats:"}
               /\ \E cpu \in FallbackCpu, memory \in FallbackMemory :
                     LET data == [message.data EXCEPT !.cpu = cpu,
                                                      !.memory = memory]
                     IN message' = [message EXCEPT
                                      !.phase = "finished",
                                      !.data = data,
                                      !.responses =
                                          RespondSuccess(message.responses,
                                                         message.request.action,
                                                         data)]
          ELSE /\ console' = console \cup {"Error handling message:"}
               /\ message' = [message EXCEPT
                                !.phase = "finished",
                                !.thrown = error,
                                !.responses = RespondFailure(message.responses, error)]
    /\ UNCHANGED <<suspended, formatted, monitoringInterval, now, scenario, hostTabs, closedTabs,
                   hostDownloads, tabStats, downloadStats, storage, pendingWrites,
                   pendingChanges, ticks>>

\* ------------------------------------------------------ storage changes
\* A chrome.storage.local.set call of this process completes: it is rejected and
\* changes nothing, or the area takes the value and, when that changed the stored
\* item, the host queues chrome.storage.onChanged for this process as well.
\* What the catch block of updateStoredStats / updateStoredDownloadStats logs.
WriteError(key) ==
    IF key = "tabStats" THEN "Error updating stored stats:"
    ELSE "Error updating stored download stats:"

NotifyChange(changes, key, item) ==
    Append(changes, [namespace |-> "local", key |-> key, newValue |-> item])

\* A catch block that issues the rejected write again, to compare with.
WritesRetriedAfterRejection(writes, ok) ==
    IF ok THEN Tail(writes) ELSE Append(Tail(writes), Head(writes))

\* The awaited call has settled; whether it resolved or was rejected, the
\* function that issued it returns and does not issue it again.
WritesAfterSettled(writes, ok) == Tail(writes)

StorageSetCompletes(ok) ==
    /\ pendingWrites # << >>
    /\ pendingWrites' = WritesAfterSettled(pendingWrites, ok)
    /\ LET w == Head(pendingWrites)
           item == Stored(w.value)
       IN /\ IF ok /\ storage[w.key] # item
             THEN /\ Len(pendingChanges) < MaxPendingChanges
                  /\ storage' = [storage EXCEPT ![w.key] = item]
                  /\ pendingChanges' = NotifyChange(pendingChanges, w.key, item)
             ELSE UNCHANGED <<storage, pendingChanges>>
          /\ console' = IF ok \/ w.key \notin StorageKeys THEN console
                        ELSE console \cup {WriteError(w.key)}
    /\ UNCHANGED <<suspended, formatted, monitoringInterval, message, now, scenario, hostTabs, closedTabs, hostDownloads, tabStats,
                   downloadStats, ticks>>

\* chrome.runtime.onInstalled: the listener sets the settings when the reason is
\* 'install'; it does not wait for the call and has no catch block.
InstallReasons == {"install", "update", "chrome_update"}
InstallSettings ==
    [autoRefresh |-> TRUE, refreshInterval |-> 5000, showNotifications |-> TRUE]

\* A listener that sets the settings whatever the reason, to compare with.
SetsSettingsAlways(reason) == TRUE

\* if (details.reason === 'install')
SetsSettings(reason) == reason = "install"

onInstalled(reason) ==
    /\ IF SetsSettings(reason)
       THEN /\ CanWrite
            /\ pendingWrites' = IssueWrite(pendingWrites, "settings", InstallSettings)
       ELSE UNCHANGED pendingWrites
    /\ UNCHANGED <<suspended, formatted, monitoringInterval, message, console, now,
                   scenario, hostTabs, closedTabs, hostDownloads, tabStats,
                   downloadStats, storage, pendingChanges, ticks>>

\* chrome.runtime.onStartup: the listener logs a line and does nothing else.
onStartup == UNCHANGED vars

\* Items another context may put under the two keys.
ForeignTab(t) ==
    [id |-> t, title |-> "B", url |-> "u2", createdAt |-> StartTime - 23 * Hour,
     memoryUsage |-> 10, cpuUsage |-> 99]
ForeignDownload(d) ==
    [id |-> d, filename |-> "f", url |-> "d", state |-> "complete",
     bytesReceived |-> 50, totalBytes |-> 200, createdAt |-> StartTime - 23 * Hour]
ForeignItems(key) ==
    IF key = "tabStats"
    THEN {NoValue, Stored(<<<<2, ForeignTab(2)>>>>)}
    ELSE {NoValue, Stored(<<<<1, ForeignDownload(1)>>>>)}

\* Another context sets or removes a key of an area; the host queues
\* chrome.storage.onChanged.  Only the 'local' area is the one this process
\* writes.
ExternalStorageChange(namespace, key, item) ==
    /\ item \in ForeignItems(key)
    /\ Len(pendingChanges) < MaxPendingChanges
    /\ IF namespace = "local"
       THEN /\ storage[key] # item
            /\ storage' = [storage EXCEPT ![key] = item]
       ELSE UNCHANGED storage
    /\ pendingChanges' = Append(pendingChanges,
                                [namespace |-> namespace, key |-> key, newValue |-> item])
    /\ UNCHANGED <<suspended, formatted, monitoringInterval, message, console, now, scenario, hostTabs, closedTabs, hostDownloads, tabStats,
                   downloadStats, pendingWrites, ticks>>

\* A listener that takes the changes of every area, to compare with.
IsAnyArea(namespace) == TRUE

\* if (namespace === 'local')
IsLocalArea(namespace) == namespace = "local"

\* A reload that keeps what the map held, to compare with.
StatsAfterChangeMerged(stats, changes, namespace, key) ==
    IF IsLocalArea(namespace) /\ key \in DOMAIN changes
    THEN MapFromEntries(ValueOrEmptyList(changes[key])) @@ stats
    ELSE stats

\* onStorageChanged(changes, namespace), for one map: changes maps each changed
\* key to its new stored item.
StatsAfterChange(stats, changes, namespace, key) ==
    IF IsLocalArea(namespace) /\ key \in DOMAIN changes
    THEN MapFromEntries(ValueOrEmptyList(changes[key]))
    ELSE stats

\* The host delivers the oldest notification.
onStorageChanged ==
    /\ pendingChanges # << >>
    /\ pendingChanges' = Tail(pendingChanges)
    /\ LET n == Head(pendingChanges)
           changes == (n.key :> n.newValue)
       IN /\ tabStats' = StatsAfterChange(tabStats, changes, n.namespace, "tabStats")
          /\ downloadStats' =
                 StatsAfterChange(downloadStats, changes, n.namespace, "downloadStats")
    /\ UNCHANGED <<suspended, formatted, monitoringInterval, message, console, now, scenario, hostTabs, closedTabs, hostDownloads, storage,
                   pendingWrites, ticks>>

\* ------------------------------------------------------- monitoring loop
maxAge == 24 * 60 * 60 * 1000

\* The pair (Math.random() - 0.5) * 10, (Math.random() - 0.5) * 5, as integers
Jitter == {<<0 - 2, 0 - 2>>, <<2, 2>>}
\* The modelled metrics stay within MetricWindow of their floor or ceiling.
InWindow(v, floor, ceiling) ==
    IsNumber(v) => \/ v <= floor + MetricWindow
                   \/ v >= ceiling - MetricWindow

\* The body of the loop over the listed tabs, for one tracked tab.
MonitoredRecord(stats, time, dm, dc) ==
    LET s1 == Assign(stats, "lastSeen", time)
        s2 == Assign(s1, "memoryUsage",
                     MathMax(10, JsAdd(Field(s1, "memoryUsage"), dm)))
    IN Assign(s2, "cpuUsage",
              MathMax(0, MathMin(100, JsAdd(Field(s2, "cpuUsage"), dc))))

\* A loop that starts a record for a listed tab without one, to compare with.
MonitorTabsAndTrack(stats, tabs, time, jitter) ==
    [t \in DOMAIN stats \cup tabs |->
        IF t \in tabs
        THEN MonitoredRecord(MapGetOrEmpty(stats, t), time, jitter[t][1], jitter[t][2])
        ELSE stats[t]]

\* for (const tab of tabs) if (this.tabStats.has(tab.id)) { ... }
MonitorTabs(stats, tabs, time, jitter) ==
    [t \in DOMAIN stats |->
        IF t \in tabs
        THEN MonitoredRecord(stats[t], time, jitter[t][1], jitter[t][2])
        ELSE stats[t]]

\* A test on the age of the record alone, to compare with.
IsStaleTabByCreation(stats, time) ==
    JsGreater(JsSub(time, Field(stats, "createdAt")), maxAge)

\* now - (stats.lastSeen || stats.createdAt) > maxAge
IsStaleTab(stats, time) ==
    JsGreater(JsSub(time, JsOr(Field(stats, "lastSeen"), Field(stats, "createdAt"))),
              maxAge)
IsStaleDownload(stats, time) ==
    JsGreater(JsSub(time, JsOr(Field(stats, "lastUpdated"), Field(stats, "createdAt"))),
              maxAge)

\* cleanupOldStats, for each of the two maps
\* A tick that writes before it evicts, so that the stale tab records are still
\* there at the write, to compare with.
CleanupTabsAfterFlush(stats, time) == stats

CleanupTabs(stats, time) ==
    [t \in {x \in DOMAIN stats : ~IsStaleTab(stats[x], time)} |-> stats[t]]
CleanupDownloads(stats, time) ==
    [d \in {x \in DOMAIN stats : ~IsStaleDownload(stats[x], time)} |-> stats[d]]

RemoveAt(seq, i) == [j \in 1..(Len(seq) - 1) |-> IF j < i THEN seq[j] ELSE seq[j + 1]]

\* A catch block that stops the loop, to compare with.
IntervalClearedAfterError(interval) == "none"

\* The catch block of the callback logs the error and leaves the timer alone.
IntervalAfterError(interval) == interval

\* setInterval fires the callback, which calls chrome.tabs.query({}) and waits.
TickFires ==
    /\ monitoringInterval # "none"
    /\ Starts(suspended)
    /\ Len(ticks) < MaxTicksInFlight
    /\ ticks' = Append(ticks, [pc |-> "query", tabs |-> hostTabs])
    /\ UNCHANGED <<suspended, formatted, monitoringInterval, message, console, now, scenario, hostTabs, closedTabs, hostDownloads, tabStats,
                   downloadStats, storage, pendingWrites, pendingChanges>>

\* A callback whose catch block covers the listing only and goes on to the
\* write of the downloads, to compare with.
TicksResumedAfterFailure(running, i) == [running EXCEPT ![i].pc = "tabsWritten"]

\* catch (error) { console.error(...) }: the callback of this firing is over.
TicksAfterFailure(running, i) == RemoveAt(running, i)

\* chrome.tabs.query rejects: the catch block logs and the callback ends.
TickQueryFails(i) ==
    /\ i \in 1..Len(ticks)
    /\ ticks[i].pc = "query"
    /\ ticks' = TicksAfterFailure(ticks, i)
    /\ console' = console \cup {"Error in monitoring loop:"}
    /\ monitoringInterval' = IntervalAfterError(monitoringInterval)
    /\ UNCHANGED <<suspended, formatted, message, now, scenario, hostTabs, closedTabs, hostDownloads, tabStats,
                   downloadStats, storage, pendingWrites, pendingChanges>>

\* chrome.tabs.query never settles: the callback goes no further; the timer
\* keeps firing.
TickQueryHangs(i) ==
    /\ i \in 1..Len(ticks)
    /\ ticks[i].pc = "query"
    /\ Cardinality(suspended) < MaxSuspended
    /\ suspended' = suspended \cup {Waiting("tick", "tabs.query", now)}
    /\ ticks' = RemoveAt(ticks, i)
    /\ UNCHANGED <<formatted, monitoringInterval, message, console, now, scenario,
                   hostTabs, closedTabs, hostDownloads, tabStats, downloadStats,
                   storage, pendingWrites, pendingChanges>>

\* chrome.tabs.query resolves: the loop over the tabs, cleanupOldStats and
\* updateStoredStats up to its await.
TickQueryReturns(i, jitter) ==
    /\ i \in 1..Len(ticks)
    /\ ticks[i].pc = "query"
    /\ CanWrite
    /\ LET monitored == MonitorTabs(tabStats, ticks[i].tabs, now, jitter)
           tabsKept == CleanupTabs(monitored, now)
       IN /\ \A t \in DOMAIN monitored :
               /\ InWindow(Field(monitored[t], "memoryUsage"), 10, 10)
               /\ InWindow(Field(monitored[t], "cpuUsage"), 0, 100)
          /\ tabStats' = tabsKept
          /\ downloadStats' = CleanupDownloads(downloadStats, now)
          /\ pendingWrites' = updateStoredStats(pendingWrites, tabsKept)
    /\ ticks' = [ticks EXCEPT ![i].pc = "tabsWritten"]
    /\ UNCHANGED <<suspended, formatted, monitoringInterval, message, console, now, scenario, hostTabs, closedTabs, hostDownloads, storage,
                   pendingChanges>>

\* updateStoredStats has returned: updateStoredDownloadStats up to its await,
\* after which the callback has nothing left to do.
TickWritesDownloads(i) ==
    /\ i \in 1..Len(ticks)
    /\ ticks[i].pc = "tabsWritten"
    /\ CanWrite
    /\ pendingWrites' = updateStoredDownloadStats(pendingWrites, downloadStats)
    /\ ticks' = RemoveAt(ticks, i)
    /\ UNCHANGED <<suspended, formatted, monitoringInterval, message, console, now, scenario, hostTabs, closedTabs, hostDownloads, tabStats,
                   downloadStats, storage, pendingChanges>>

\* ------------------------------------------------------------ specification
\* What the host and the timer may do, over given sets of inputs.
TabEvents(ids, created, updated, statuses) ==
    \/ \E t \in ids, page \in created : onTabCreated(t, page)
    \/ \E t \in ids : onTabRemoved(t)
    \/ \E t \in ids, page \in updated, status \in statuses :
          onTabUpdated(t, page, status)

DownloadEvents(items, deltas) ==
    \/ \E item \in items : onDownloadCreated(item)
    \/ \E delta \in deltas : onDownloadChanged(delta)

StorageTraffic ==
    \/ \E ok \in BOOLEAN : StorageSetCompletes(ok)
    \/ onStorageChanged

OtherContexts(namespaces) ==
    \E namespace \in namespaces, key \in StorageKeys :
       \E item \in ForeignItems(key) : ExternalStorageChange(namespace, key, item)

Monitoring ==
    \/ TickFires
    \/ \E i \in 1..MaxTicksInFlight : TickQueryFails(i)
    \/ \E i \in 1..MaxTicksInFlight, jitter \in [TabIds -> Jitter] :
          TickQueryReturns(i, jitter)
    \/ \E i \in 1..MaxTicksInFlight : TickWritesDownloads(i)

\* Lifecycle events and storage traffic between two firings of the timer, or
\* other contexts writing the storage areas.
Next ==
    \/ scenario = "tabs" /\ TabEvents(TabIds, Pages, Pages, {"loading", "complete"})
    \/ scenario = "downloads" /\ DownloadEvents(DownloadItems, DownloadDeltas)
    \/ StorageTraffic
    \/ scenario = "storage" /\ OtherContexts({"local", "sync"})

Spec == Init /\ [][Next]_vars

\* The monitoring loop over a day, with tab 2 opened, loaded and closed, or
\* download 1 started and progressing, or other contexts writing the storage area.
MonitorItems == {i \in DownloadItems : i.totalBytes = 200}
MonitorDeltas == {d \in DownloadDeltas :
                    /\ ~d.state.present
                    /\ d.bytesReceived = Change(300)
                    /\ ~d.totalBytes.present}

NextMonitor ==
    \/ AdvanceClock
    \/ Monitoring
    \/ scenario = "tabs" /\ TabEvents({2}, {PageA}, {PageB}, {"complete"})
    \/ scenario = "downloads" /\ DownloadEvents(MonitorItems, MonitorDeltas)
    \/ StorageTraffic
    \/ scenario = "storage" /\ OtherContexts({"local"})

SpecMonitor == Init /\ [][NextMonitor]_vars

\* The monitoring loop while the tab that was open from the start loads its page.
NextNavigation ==
    \/ Monitoring
    \/ onTabUpdated(1, PageA, "complete")
    \/ StorageTraffic

SpecNavigation == Init /\ [][NextNavigation]_vars

\* The monitoring loop alone over a day, with a timer that keeps firing and a
\* host that settles every call it was given and does not fail the listing for
\* ever.
NextSchedule ==
    \/ AdvanceClock
    \/ Monitoring
    \/ StorageTraffic

Fairness ==
    /\ WF_vars(TickFires)
    /\ SF_vars(\E i \in 1..MaxTicksInFlight, jitter \in [TabIds -> Jitter] :
                  TickQueryReturns(i, jitter))
    /\ SF_vars(\E i \in 1..MaxTicksInFlight : TickWritesDownloads(i))
    /\ WF_vars(\E ok \in BOOLEAN : StorageSetCompletes(ok))

SpecSchedule == Init /\ [][NextSchedule]_vars /\ Fairness

\* A host that leaves one call unsettled for ever and settles every other, with
\* a timer that keeps firing: the monitoring loop, the start of a download and a
\* message of the popup go on around the operation that waits.
HangRequests == {request \in Requests : /\ request.action = "pauseDownload"
                                        /\ request.tabId = 1}
Steady == [t \in TabIds |-> <<0 - 2, 0 - 2>>]
NextHangs ==
    \/ AdvanceClock
    \/ TickFires
    \/ \E i \in 1..MaxTicksInFlight : TickQueryHangs(i)
    \/ \E i \in 1..MaxTicksInFlight : TickQueryReturns(i, Steady)
    \/ \E i \in 1..MaxTicksInFlight : TickWritesDownloads(i)
    \/ \E request \in HangRequests : handleMessage(request)
    \/ HostCallResolves
    \/ HostCallHangs
    \/ \E item \in MonitorItems : onDownloadCreated(item)
    \/ StorageSetCompletes(TRUE)
    \/ onStorageChanged

SpecHangs ==
    /\ InitDownloads
    /\ [][NextHangs]_vars
    /\ WF_vars(TickFires)
    /\ SF_vars(\E i \in 1..MaxTicksInFlight : TickQueryReturns(i, Steady))
    /\ SF_vars(\E i \in 1..MaxTicksInFlight : TickWritesDownloads(i))
    /\ WF_vars(StorageSetCompletes(TRUE))
    /\ WF_vars(onStorageChanged)
    /\ WF_vars(HostCallResolves)

\* Tab 2 opened, loaded and closed while another context writes the local area:
\* the stores are reloaded from what that context wrote.
NextReload ==
    \/ TabEvents({2}, Pages, Pages, {"complete"})
    \/ OtherContexts({"local"})
    \/ StorageTraffic

SpecReload == InitStorage /\ [][NextReload]_vars

\* The notifications of the runtime next to everything else the process does:
\* tab 2 opened, loaded and closed, or download 1 started and progressing, or
\* the popup asking to pause a download, with the monitoring loop throughout.
InstallRequests == {request \in Requests : /\ request.action = "pauseDownload"
                                           /\ request.tabId = 1}
NextInstall ==
    \/ \E reason \in InstallReasons : onInstalled(reason)
    \/ onStartup
    \/ scenario = "tabs" /\ TabEvents({2}, {PageA}, {PageB}, {"complete"})
    \/ scenario = "downloads" /\ DownloadEvents(MonitorItems, MonitorDeltas)
    \/ scenario = "storage" /\ \E request \in InstallRequests : handleMessage(request)
    \/ scenario = "storage" /\ HostCallResolves
    \/ scenario = "storage" /\ \E error \in HostErrors : HostCallRejects(error)
    \/ Monitoring
    \/ StorageTraffic

SpecInstall == Init /\ [][NextInstall]_vars

\* Tab 2 and download 1 side by side, while other contexts write the local and
\* the sync area: every event of the one store happens while the other holds
\* records.
NextStores ==
    \/ TabEvents({2}, {PageA}, {PageB}, {"loading", "complete"})
    \/ DownloadEvents(MonitorItems, MonitorDeltas)
    \/ OtherContexts({"local", "sync"})
    \/ StorageTraffic

SpecStores == InitStorage /\ [][NextStores]_vars

\* formatTime on its own: the times it is given, from below zero to hours, on
\* both sides of 60 and 3600 seconds and of the halves where Math.round turns.
Numerators ==
    {0 - 100, 0 - 1, 0, 1, 29, 59, 60, 61, 89, 90, 91, 119, 120, 121, 150, 179, 180,
     1799, 3570, 3599, 3600, 3601, 5399, 5400, 5401, 7199, 7200, 7201, 9000, 86400}
SecondsInputs == {Quotient(n, d) : n \in Numerators, d \in 1..MaxDenominator}

CallFormatTime ==
    /\ formatted.text = NotCalled.text
    /\ formatted' = [formatted EXCEPT !.text = formatTime(formatted.seconds)]
    /\ UNCHANGED <<now, scenario, hostTabs, closedTabs, hostDownloads, tabStats,
                   downloadStats, storage, pendingWrites, pendingChanges,
                   monitoringInterval, ticks, message, console, suspended>>

NextFormat == CallFormatTime

InitFormat ==
    /\ Constructed
    /\ formatted \in {[seconds |-> q, text |-> NotCalled.text] : q \in SecondsInputs}

SpecFormat == InitFormat /\ [][NextFormat]_vars

\* The messages of the popup, while the host closes tabs.
Messages ==
    \/ \E request \in Requests : handleMessage(request)
    \/ HostCallResolves
    \/ \E error \in HostErrors : HostCallRejects(error)

NextMessages ==
    \/ Messages
    \/ \E t \in TabIds : onTabRemoved(t)
    \/ StorageTraffic

SpecMessages == Init /\ [][NextMessages]_vars

\* The queries of the popup: the tab statistics while tab 2 opens, loads and
\* closes, the download statistics while download 1 starts and progresses, the
\* system statistics otherwise.
QueryOf(environment) ==
    CASE environment = "tabs" -> "getTabStats"
      [] environment = "downloads" -> "getDownloadStats"
      [] OTHER -> "getSystemStats"
QueryRequests == {request \in Requests : /\ request.action \in QueryActions
                                         /\ request.tabId = 1}
QueryDeltas == {d \in DownloadDeltas : ~d.state.present /\ ~d.totalBytes.present}

NextQueries ==
    \/ \E request \in QueryRequests :
          request.action = QueryOf(scenario) /\ handleMessage(request)
    \/ HostCallResolves
    \/ \E error \in HostErrors : HostCallRejects(error)
    \/ scenario = "tabs" /\ TabEvents({2}, {PageA}, {PageB}, {"complete"})
    \/ scenario = "downloads" /\ DownloadEvents(DownloadItems, QueryDeltas)
    \/ StorageTraffic

SpecQueries == Init /\ [][NextQueries]_vars

\* Every action of the popup next to the events of the store it is about: the
\* tab actions while tab 2 opens, loads and closes, the download actions while
\* download 1 starts and progresses, the system statistics and an unknown action
\* while another context writes the local area.
ActionsOf(environment) ==
    CASE environment = "tabs" -> {"getTabStats", "closeTab", "focusTab"}
      [] environment = "downloads" -> {"getDownloadStats", "pauseDownload",
                                       "resumeDownload", "cancelDownload"}
      [] OTHER -> {"getSystemStats", "reloadTab"}
PopupRequests == {request \in Requests : request.tabId = 2 /\ request.downloadId = 1}

NextPopup ==
    \/ \E request \in PopupRequests :
          request.action \in ActionsOf(scenario) /\ handleMessage(request)
    \/ HostCallResolves
    \/ \E error \in HostErrors : HostCallRejects(error)
    \/ scenario = "tabs" /\ TabEvents({2}, {PageA}, {PageB}, {"complete"})
    \/ scenario = "downloads" /\ DownloadEvents(MonitorItems, MonitorDeltas)
    \/ scenario = "storage" /\ OtherContexts({"local"})
    \/ StorageTraffic

SpecPopup == Init /\ [][NextPopup]_vars

\* getDownloadStats on downloads of any age: time passes between the events of a
\* download and the query.
SpeedDeltas == {d \in QueryDeltas : ~d.bytesReceived.present}
NextSpeeds ==
    \/ \E request \in QueryRequests :
          request.action = "getDownloadStats" /\ handleMessage(request)
    \/ HostCallResolves
    \/ \E error \in HostErrors : HostCallRejects(error)
    \/ DownloadEvents(DownloadItems, SpeedDeltas)
    \/ AdvanceClock
    \/ StorageTraffic

SpecSpeeds == InitDownloads /\ [][NextSpeeds]_vars

DeltaFields == {"state", "bytesReceived", "totalBytes"}

C2_DeltaIsAppliedFieldByField ==
    [][\A delta \in DownloadDeltas :
          onDownloadChanged(delta) =>
             LET before == MapGetOrEmpty(downloadStats, delta.id)
                 after == downloadStats'[delta.id]
             IN /\ DOMAIN downloadStats' = DOMAIN downloadStats \cup {delta.id}
                /\ \A d \in DOMAIN downloadStats \ {delta.id} :
                      downloadStats'[d] = downloadStats[d]
                /\ \A f \in DeltaFields :
                      IF delta[f].present
                      THEN Has(after, f) /\ after[f] = delta[f].current
                      ELSE /\ Has(after, f) <=> Has(before, f)
                           /\ Has(before, f) => after[f] = before[f]
                /\ Has(after, "lastUpdated") /\ after.lastUpdated = now
                /\ \A f \in (DOMAIN before \cup DOMAIN after)
                                \ (DeltaFields \cup {"lastUpdated"}) :
                      /\ Has(before, f) /\ Has(after, f)
                      /\ after[f] = before[f]]_vars

\* Download 1 was created with 50 of an unknown number of bytes, and a delta that
\* carried bytesReceived alone was applied to it.
C2_Witness ==
    /\ MapHas(downloadStats, 1)
    /\ Has(downloadStats[1], "lastUpdated")
    /\ Has(downloadStats[1], "createdAt")
    /\ downloadStats[1].bytesReceived = 300
    /\ downloadStats[1].totalBytes = 0
    /\ downloadStats[1].state = "in_progress"

\* C3: on a monitoring tick every tracked tab or download whose most recent
\* observation (lastSeen or lastUpdated, createdAt when it has neither) is more
\* than 24 hours before now is removed from its store, and every one whose most
\* recent observation is less than 24 hours old is retained.
MostRecentObservation(stats) ==
    LET seen == {v \in {Field(stats, "lastSeen"), Field(stats, "lastUpdated")} :
                    Truthy(v)}
    IN IF seen # {} THEN CHOOSE v \in seen : \A w \in seen : w <= v
       ELSE Field(stats, "createdAt")

EvictedByAge(before, after, time) ==
    \A k \in DOMAIN before :
       LET observed == MostRecentObservation(before[k])
       IN IsNumber(observed) =>
             /\ time - observed > maxAge => k \notin DOMAIN after
             /\ time - observed < maxAge => k \in DOMAIN after

C3_TickEvictsByMostRecentObservation ==
    [][\A i \in 1..MaxTicksInFlight, jitter \in [TabIds -> Jitter] :
          TickQueryReturns(i, jitter) =>
             /\ EvictedByAge(MonitorTabs(tabStats, ticks[i].tabs, now, jitter),
                             tabStats', now)
             /\ EvictedByAge(downloadStats, downloadStats', now)]_vars

\* C4: when onStorageChanged is told that the 'local' value of tabStats or of
\* downloadStats changed, the map of that key holds afterwards exactly the
\* (id, record) pairs of the new value, so no id tracked before survives unless
\* the new value has it, and the map is empty when the new value is absent.
HoldsExactly(stats, item) ==
    LET list == ValueOrEmptyList(item)
    IN /\ DOMAIN stats = {list[i][1] : i \in 1..Len(list)}
       /\ \A i \in 1..Len(list) : stats[list[i][1]] = list[i][2]
       /\ ~item.present => stats = EmptyMap

C4_StorageChangeReplacesTheStore ==
    [][onStorageChanged =>
          LET n == Head(pendingChanges)
          IN n.namespace = "local" =>
                /\ n.key = "tabStats" => HoldsExactly(tabStats', n.newValue)
                /\ n.key = "downloadStats" => HoldsExactly(downloadStats', n.newValue)]_vars

\* Tab 2 is open and its record is on its way to the storage area; the
\* notification of the empty list stored before has emptied tabStats.
C4_Witness ==
    /\ hostTabs = {2}
    /\ tabStats = EmptyMap
    /\ storage["tabStats"] = Stored(<< >>)
    /\ pendingChanges = << >>
    /\ Len(pendingWrites) = 1
    /\ pendingWrites[1].key = "tabStats"
    /\ Len(pendingWrites[1].value) = 1

\* C5 as stated: whenever no handler is suspended, tabStats holds a record for a
\* tab id if and only if that tab is open in the host.
NoHandlerSuspended == pendingWrites = << >> /\ ticks = << >>

C5_RecordIffTabOpen == NoHandlerSuspended => DOMAIN tabStats = hostTabs

\* C5, amended: a tab-created event and a tab-updated event with status
\* 'complete' leave the tab of the event with a record, and a tab-removed event
\* leaves the closed tab without one; a tab open before the process started has
\* no record until such an event, and a reload from storage may bring the record
\* of a tab that is not open.
C5_EventsTrackAndUntrack ==
    [][/\ \A t \in TabIds, page \in Pages :
            onTabCreated(t, page) \/ onTabUpdated(t, page, "complete") =>
               /\ t \in DOMAIN tabStats'
               /\ tabStats'[t].id = t
               /\ tabStats'[t].url = page.url
       /\ \A t \in TabIds : onTabRemoved(t) => t \notin DOMAIN tabStats']_vars

\* Nothing is pending; tab 1, open from the start, got its record from a
\* completed update, and tab 2 was opened and closed and has none.
C5_Witness ==
    /\ NoHandlerSuspended
    /\ pendingChanges = << >>
    /\ hostTabs = {1}
    /\ closedTabs = {2}
    /\ DOMAIN tabStats = {1}
    /\ ~Has(tabStats[1], "createdAt")

\* C6 as stated: after a successful tick every tab of the host's listing is
\* tracked in tabStats, so a live tab without a record gets one from the first
\* tick that observes it.
C6_TickTracksEveryListedTab ==
    [][\A i \in 1..MaxTicksInFlight, jitter \in [TabIds -> Jitter] :
          TickQueryReturns(i, jitter) => ticks[i].tabs \subseteq DOMAIN tabStats']_vars

\* C6, amended: a monitoring tick creates no record; a listed tab is tracked
\* after the tick if and only if it was tracked before it, so a live tab without
\* a record stays without one until a tab-created or completed tab-updated event.
C6_TickLeavesListedTabsAsTrackedAsBefore ==
    [][\A i \in 1..MaxTicksInFlight, jitter \in [TabIds -> Jitter] :
          TickQueryReturns(i, jitter) =>
             \A t \in ticks[i].tabs : t \in DOMAIN tabStats' <=> t \in DOMAIN tabStats]_vars

\* A tick listed tabs 1 and 2 and has refreshed the record of tab 2; tab 1, open
\* from the start, is still without a record.
C6_Witness ==
    /\ Len(ticks) = 1
    /\ ticks[1].pc = "tabsWritten"
    /\ ticks[1].tabs = {1, 2}
    /\ DOMAIN tabStats = {2}
    /\ Field(tabStats[2], "lastSeen") = now

\* C7: a host call that fails during a monitoring tick, the tab listing or a
\* storage write, is caught and logged, and the timer is not cancelled: a later
\* tick fires and runs its sequence to its last step, the write of the downloads.
FailureLogged == console # {}
TickAtLastStep == \E j \in 1..Len(pendingWrites) : pendingWrites[j].key = "downloadStats"

C7_TicksGoOnAfterFailure ==
    /\ [](monitoringInterval = "interval")
    /\ FailureLogged ~> TickAtLastStep

\* A listing failed earlier; a tick has since listed the tabs, written the tab
\* records and issued the write of the downloads.
C7_Witness ==
    /\ "Error in monitoring loop:" \in console
    /\ TickAtLastStep
    /\ ticks = << >>

\* C8: after a monitoring tick every tab that is listed and tracked has lastSeen
\* = now, memoryUsage >= 10 and 0 <= cpuUsage <= 100, however its record was
\* created.
C8_TickLeavesMetricsInRange ==
    [][\A i \in 1..MaxTicksInFlight, jitter \in [TabIds -> Jitter] :
          TickQueryReturns(i, jitter) =>
             \A t \in ticks[i].tabs \cap DOMAIN tabStats' :
                /\ Field(tabStats'[t], "lastSeen") = now
                /\ Field(tabStats'[t], "memoryUsage") >= 10
                /\ Field(tabStats'[t], "cpuUsage") >= 0
                /\ Field(tabStats'[t], "cpuUsage") <= 100]_vars

\* C9 as stated: once events and ticks have stopped and every pending storage
\* write and change notification has been delivered, tabStats and downloadStats
\* equal the values persisted under their keys.
Quiescent == pendingWrites = << >> /\ pendingChanges = << >> /\ ticks = << >>

\* The map holds what the storage area keeps under key.
Persisted(stats, key) == Entries(stats) = ValueOrEmptyList(storage[key])

NoWriteRejected == \A key \in StorageKeys : WriteError(key) \notin console

C10_ExactlyOneResponse ==
    /\ message.phase = "awaiting" => message.responses = << >>
    /\ message.phase = "finished" =>
          /\ Len(message.responses) = 1
          /\ LET response == message.responses[1]
             IN IF message.thrown # "none"
                THEN response = [success |-> FALSE, error |-> message.thrown]
                ELSE IF message.request.action \in MessageActions
                THEN /\ response.success
                     /\ DOMAIN response \subseteq {"success", "data"}
                ELSE /\ ~response.success
                     /\ DOMAIN response = {"success", "error"}

\* focusTab went through chrome.tabs.update and chrome.tabs.get, and
\* chrome.windows.update threw; the exception was logged and answered.
C10_Witness ==
    /\ message.phase = "finished"
    /\ message.request.action = "focusTab"
    /\ message.call = 3
    /\ message.thrown = "Extension context invalidated"
    /\ "Error handling message:" \in console
    /\ Len(message.responses) = 1

\* C11: a message whose action is none of the eight the switch knows is answered
\* at once with { success: false, error: 'Unknown action' }: the handler awaits no
\* host call and neither store changes.
C11_UnknownActionIsRefused ==
    [][\A request \in Requests :
          handleMessage(request) /\ request.action \notin MessageActions =>
             /\ message'.phase = "finished"
             /\ message'.call = 0
             /\ message'.responses = <<[success |-> FALSE, error |-> "Unknown action"]>>
             /\ message'.thrown = "none"
             /\ console' = console
             /\ tabStats' = tabStats
             /\ downloadStats' = downloadStats]_vars

\* 'gettabstats', which differs from a known action in case only, was refused.
C11_Witness ==
    /\ message.phase = "finished"
    /\ message.request.action = "gettabstats"
    /\ message.call = 0
    /\ message.responses = <<[success |-> FALSE, error |-> "Unknown action"]>>

\* C12 as stated: whatever host call fails during getTabStats, getDownloadStats
\* or getSystemStats, the tab listing and the download listing included, the
\* caller receives a success response and never a failure response.
C12_QueriesAlwaysSucceed ==
    message.phase = "finished" /\ message.request.action \in QueryActions =>
       \A i \in 1..Len(message.responses) : message.responses[i].success

\* C12, amended: a host call that fails during getSystemStats, and a failing
\* process-info call of getTabStats, is recovered locally (fallback values, and
\* estimated figures in the entry of the tab) and the caller receives a success
\* response; a failure of the tab listing of getTabStats or of the download
\* listing of getDownloadStats is not recovered: the caller receives
\* { success: false, error } with the message of the exception.
C12_QueriesRecoverExceptFromListing ==
    [][\A error \in HostErrors :
          HostCallRejects(error) /\ message.request.action \in QueryActions =>
             IF message.request.action # "getSystemStats" /\ message.call = 1
             THEN /\ message'.phase = "finished"
                  /\ message'.responses = <<[success |-> FALSE, error |-> error]>>
             ELSE /\ \A i \in 1..Len(message'.responses) : message'.responses[i].success
                  /\ message.request.action = "getSystemStats" =>
                        /\ message'.phase = "finished"
                        /\ Len(message'.responses) = 1
                  /\ message.request.action = "getTabStats" =>
                        /\ Len(message'.data) = Len(message.data) + 1
                        /\ message'.data[Len(message'.data)].id
                              = message.listing[message.call - 1].id
                        /\ message'.data[Len(message'.data)].memoryUsage = EstimatedMemory
                        /\ message'.data[Len(message'.data)].cpuUsage = EstimatedCpu
                        /\ message'.phase = "finished" =>
                              /\ Len(message'.responses) = 1
                              /\ message'.responses[1].data = message'.data]_vars

\* getTabStats listed tab 1, the process-info call threw, and the answer is a
\* success with estimated figures for the tab.
C12_Witness ==
    /\ message.phase = "finished"
    /\ message.request.action = "getTabStats"
    /\ message.thrown = "none"
    /\ Len(message.responses) = 1
    /\ message.responses[1].success
    /\ Len(message.responses[1].data) = 1
    /\ message.responses[1].data[1].memoryUsage = EstimatedMemory

\* C13: a tab-updated event changes the store only when changeInfo.status is
\* 'complete': then the record of the tab has the title and url of the event and
\* lastUpdated = now, keeps every other field it had (a record is created when
\* there was none), the other records stay as they were and the store is
\* written; for any other change the store stays as it was and no write is issued.
UpdatedFields == {"title", "url", "lastUpdated"}

C13_OnlyCompletedUpdatesChangeTheStore ==
    [][\A t \in TabIds, page \in Pages, status \in {"loading", "complete"} :
          onTabUpdated(t, page, status) =>
             IF status = "complete"
             THEN LET before == MapGetOrEmpty(tabStats, t)
                      after == tabStats'[t]
                  IN /\ DOMAIN tabStats' = DOMAIN tabStats \cup {t}
                     /\ \A u \in DOMAIN tabStats \ {t} : tabStats'[u] = tabStats[u]
                     /\ DOMAIN after = DOMAIN before \cup UpdatedFields \cup {"id"}
                     /\ after.id = t
                     /\ after.title = page.title
                     /\ after.url = page.url
                     /\ after.lastUpdated = now
                     /\ \A f \in DOMAIN before \ UpdatedFields : after[f] = before[f]
                     /\ pendingWrites' = Append(pendingWrites,
                                                [key |-> "tabStats",
                                                 value |-> Entries(tabStats')])
             ELSE /\ tabStats' = tabStats
                  /\ pendingWrites' = pendingWrites]_vars

\* Tab 2 was created showing page A and has finished loading page B: its record
\* has the new title and keeps createdAt and the metrics of its creation.
C13_Witness ==
    /\ hostTabs = {1, 2}
    /\ DOMAIN tabStats = {2}
    /\ tabStats[2].title = "B"
    /\ tabStats[2].url = "u2"
    /\ Field(tabStats[2], "lastUpdated") = now
    /\ Field(tabStats[2], "createdAt") = now
    /\ Field(tabStats[2], "memoryUsage") = 0

\* C14: a tab-removed event for an id without a record is handled like any other
\* (nothing is logged, the store is written) and leaves tabStats as it was; and
\* removing the same id once more from the store the event leaves gives that
\* store again.
C14_RemovalIsIdempotent ==
    [][\A t \in TabIds :
          onTabRemoved(t) =>
             /\ t \notin DOMAIN tabStats => tabStats' = tabStats
             /\ TabRemovedStats(tabStats', t) = tabStats'
             /\ console' = console
             /\ pendingWrites' = Append(pendingWrites,
                                        [key |-> "tabStats",
                                         value |-> Entries(tabStats')])]_vars

\* Tab 1, which never had a record (nothing was ever stored or logged), was
\* closed: the store is still empty and is being written.
C14_Witness ==
    /\ closedTabs = {1}
    /\ hostTabs = {}
    /\ tabStats = EmptyMap
    /\ console = {}
    /\ storage["tabStats"] = NoValue
    /\ pendingWrites = <<[key |-> "tabStats", value |-> << >>]>>

\* C15: onDownloadChanged takes every delta, also one for an id without a record
\* and one that carries only some, or none, of state, bytesReceived and
\* totalBytes: nothing is logged, the store is written, and afterwards the id of
\* the delta has a record with lastUpdated = now; when it had none before, the
\* record holds the fields the delta carries, lastUpdated, and nothing else.
C15_EveryDeltaIsTaken ==
    /\ [](CanWrite => \A delta \in DownloadDeltas : ENABLED onDownloadChanged(delta))
    /\ [][\A delta \in DownloadDeltas :
             onDownloadChanged(delta) =>
                /\ MapHas(downloadStats', delta.id)
                /\ Field(downloadStats'[delta.id], "lastUpdated") = now
                /\ ~MapHas(downloadStats, delta.id) =>
                      /\ DOMAIN downloadStats'[delta.id] =
                            {f \in DeltaFields : delta[f].present} \cup {"lastUpdated"}
                      /\ \A f \in DeltaFields :
                            delta[f].present =>
                               downloadStats'[delta.id][f] = delta[f].current
                /\ console' = console
                /\ pendingWrites' = Append(pendingWrites,
                                           [key |-> "downloadStats",
                                            value |-> Entries(downloadStats')])]_vars

\* A delta that carried none of the three fields arrived for download 1, which
\* had no record: the record holds lastUpdated alone.
C15_Witness ==
    /\ hostDownloads = {}
    /\ DOMAIN downloadStats = {1}
    /\ DOMAIN downloadStats[1] = {"lastUpdated"}
    /\ downloadStats[1].lastUpdated = now
    /\ console = {}

\* C16: when a storage write of updateStoredStats or updateStoredDownloadStats is
\* rejected, the error is logged by the function that issued the write and by
\* nothing else (it does not reach the catch block of the tick), the write is
\* not issued again, the handler or tick that awaited it goes on, and both
\* stores keep what they held, ahead of the storage area.
C16_RejectedWriteIsLoggedAndDropped ==
    [][StorageSetCompletes(FALSE) =>
          /\ console' = console \cup {WriteError(Head(pendingWrites).key)}
          /\ pendingWrites' = Tail(pendingWrites)
          /\ tabStats' = tabStats
          /\ downloadStats' = downloadStats
          /\ storage' = storage
          /\ pendingChanges' = pendingChanges
          /\ ticks' = ticks
          /\ monitoringInterval' = monitoringInterval]_vars

\* The write a tick issued for the record of tab 1 was rejected: the rejection
\* is logged, the record is in tabStats and not in the storage area, nothing is
\* pending and the tick is about to write the downloads.
C16_Witness ==
    /\ console = {WriteError("tabStats")}
    /\ MapHas(tabStats, 1)
    /\ Field(tabStats[1], "lastSeen") = now
    /\ storage["tabStats"] = NoValue
    /\ pendingWrites = << >>
    /\ Len(ticks) = 1
    /\ ticks[1].pc = "tabsWritten"

\* C17: a tick whose tab listing succeeds ends by flushing both stores, after its
\* eviction step: with the listing it evicts and writes the entries of tabStats,
\* which then holds no stale record, under the key tabStats; it goes on to write
\* the entries of downloadStats, as the store is once the first write has
\* settled, under the key downloadStats; and it ends with that write only.
C17_TickFlushesBothStores ==
    [][\A i \in 1..Len(ticks) :
          /\ \A jitter \in [TabIds -> Jitter] :
                TickQueryReturns(i, jitter) =>
                   /\ \A t \in DOMAIN tabStats' : ~IsStaleTab(tabStats'[t], now)
                   /\ \A d \in DOMAIN downloadStats' :
                         ~IsStaleDownload(downloadStats'[d], now)
                   /\ pendingWrites' = Append(pendingWrites,
                                              [key |-> "tabStats",
                                               value |-> Entries(tabStats')])
                   /\ Len(ticks') = Len(ticks)
                   /\ ticks'[i].pc = "tabsWritten"
          /\ ticks[i].pc = "tabsWritten" /\ ticks' = RemoveAt(ticks, i) =>
                /\ downloadStats' = downloadStats
                /\ pendingWrites' = Append(pendingWrites,
                                           [key |-> "downloadStats",
                                            value |-> Entries(downloadStats)])]_vars

\* A day after the record of download 1 came from the storage area, a tick has
\* evicted it and written the tab records, and has ended by issuing the write of
\* the empty downloadStats; the storage area still holds the record.
C17_Witness ==
    /\ now = StartTime + ClockStep
    /\ ticks = << >>
    /\ downloadStats = EmptyMap
    /\ pendingChanges = << >>
    /\ storage["downloadStats"] = Stored(<<<<1, ForeignDownload(1)>>>>)
    /\ storage["tabStats"] = Stored(<< >>)
    /\ pendingWrites = <<[key |-> "downloadStats", value |-> << >>]>>

\* C18: getTabStats answers with one entry for every tab of the listing, and in
\* the entry of a tab the title, url and active flag are the host's, while
\* memoryUsage, cpuUsage and the timestamps are those of the tracked record,
\* when it has them.
TrackedFields == {"memoryUsage", "cpuUsage", "createdAt", "lastUpdated", "lastSeen"}

C18_HostTitleAndTrackedMetricsPrevail ==
    [][/\ message.phase = "awaiting"
       /\ message.request.action = "getTabStats"
       /\ Len(message'.data) = Len(message.data) + 1
       => LET tab == message.listing[message.call - 1]
              tracked == message.stored
              entry == message'.data[Len(message'.data)]
          IN /\ entry.id = tab.id
             /\ entry.title = tab.title
             /\ entry.url = tab.url
             /\ entry.active = tab.active
             /\ \A f \in TrackedFields :
                   Has(tracked, f) => Has(entry, f) /\ entry[f] = tracked[f]
             /\ message'.phase = "finished" =>
                   Len(message'.responses[1].data) = Len(message.listing)]_vars

\* C19: getDownloadStats answers with one entry for each download of the listing,
\* ordered by start time, the most recent first: of two adjacent entries the
\* first has no earlier start than the second.
DownloadAnswer ==
    /\ message.phase = "finished"
    /\ message.request.action = "getDownloadStats"
    /\ message.thrown = "none"

C19_MostRecentStartFirst ==
    DownloadAnswer =>
       LET data == message.responses[1].data
       IN /\ Len(data) = Len(message.listing)
          /\ {data[i].id : i \in 1..Len(data)}
                = {message.listing[i].id : i \in 1..Len(message.listing)}
          /\ \A i \in 1..(Len(data) - 1) :
                Instant(data[i].startTime) >= Instant(data[i + 1].startTime)

\* The host listed the download that started at 09 before the one that started
\* at 10, and the answer has them the other way round.
C19_Witness ==
    /\ DownloadAnswer
    /\ Len(message.listing) = 2
    /\ message.listing[1].startTime = <<0, 9>>
    /\ message.listing[2].startTime = <<1, 0>>
    /\ Len(message.responses[1].data) = 2
    /\ message.responses[1].data[1].id = message.listing[2].id
    /\ message.responses[1].data[2].id = message.listing[1].id

\* C20: in every entry of the answer of getDownloadStats, progress is
\* bytesReceived / totalBytes x 100 of that entry (25 for 50 of 200), and 0 when
\* the entry's totalBytes is 0 or absent; so progress is within [0, 100] when the
\* entry has bytesReceived <= totalBytes.
C20_ProgressOfMergedEntry ==
    DownloadAnswer =>
       \A i \in 1..Len(message.responses[1].data) :
          LET entry == message.responses[1].data[i]
              received == Field(entry, "bytesReceived")
              total == Field(entry, "totalBytes")
          IN /\ IF Truthy(total)
                THEN IsNumber(received) => entry.progress * total = received * 100
                ELSE entry.progress = 0
             /\ IsNumber(received) /\ IsNumber(total) /\ received <= total =>
                   entry.progress >= 0 /\ entry.progress <= 100

\* C21: in every entry of the answer of getDownloadStats, speed is 'N/A' when
\* the process has no update of the download (no tracked record, or none with a
\* lastUpdated) or less than one second has passed since the last one; and
\* estimatedTimeRemaining is 'N/A' when speed is 'N/A', when the tracked state
\* is not in_progress, or when the tracked totalBytes is 0 or absent.
C21_NotAvailableSpeedAndTimeRemaining ==
    [][DownloadAnswer' /\ message # message' =>
          \A i \in 1..Len(message'.responses[1].data) :
             LET entry == message'.responses[1].data[i]
                 record == MapGetOrEmpty(downloadStats, entry.id)
                 updated == Field(record, "lastUpdated")
             IN /\ (\/ ~MapHas(downloadStats, entry.id)
                    \/ ~IsNumber(updated)
                    \/ now - updated < 1000)
                   => entry.speed = NotAvailableText
                /\ (\/ entry.speed = NotAvailableText
                    \/ ~InProgress(record)
                    \/ ~Truthy(Field(record, "totalBytes")))
                   => entry.estimatedTimeRemaining = NotAvailableText]_vars

\* An answer with a download updated 25 hours before, in progress, 50 of 200
\* bytes: it has a speed and a time remaining; and next to it a download the
\* process does not track, with 'N/A' for both.
C21_Witness ==
    /\ DownloadAnswer
    /\ \E i \in 1..Len(message.responses[1].data) :
          LET entry == message.responses[1].data[i]
          IN /\ entry.speed # NotAvailableText
             /\ entry.estimatedTimeRemaining # NotAvailableText
    /\ \E i \in 1..Len(message.responses[1].data) :
          LET entry == message.responses[1].data[i]
          IN /\ ~MapHas(downloadStats, entry.id)
             /\ entry.speed = NotAvailableText
             /\ entry.estimatedTimeRemaining = NotAvailableText

\* C22: the cpu of every answer of getSystemStats is within [5, 90], whatever
\* the numbers of tabs and of downloads in progress and whichever parts of
\* chrome.system the host offers.
SystemAnswer ==
    /\ message.phase = "finished"
    /\ message.request.action = "getSystemStats"
    /\ message.thrown = "none"

C22_CpuEstimateWithinBounds ==
    SystemAnswer =>
       /\ message.responses[1].data.cpu >= 5
       /\ message.responses[1].data.cpu <= 90

\* C22 as the code has it: the cpu of the answer is within [5, 90] when the host
\* offers chrome.system.cpu and when a host call of getSystemStats fails; on a
\* host without chrome.system.cpu, when no call fails, it is 0.
C22_CpuEstimateWithinBoundsOrZero ==
    [][SystemAnswer' /\ message # message' =>
          LET cpu == message'.responses[1].data.cpu
          IN IF \/ "cpu" \in message'.system
                \/ \E error \in HostErrors : HostCallRejects(error)
             THEN cpu >= 5 /\ cpu <= 90
             ELSE cpu = 0]_vars

\* A host with chrome.system.memory only: 5 of 8 units in use, cpu 0.
C22_Witness ==
    /\ SystemAnswer
    /\ message.system = {"memory"}
    /\ message.responses[1].data.cpu = 0
    /\ message.responses[1].data.memory = 63

\* C23: every tracked download record with a totalBytes other than 0 has
\* bytesReceived <= totalBytes.
C23_ReceivedWithinTotal ==
    \A d \in DOMAIN downloadStats :
       LET record == downloadStats[d]
       IN Truthy(Field(record, "totalBytes")) /\ IsNumber(Field(record, "bytesReceived"))
             => record.bytesReceived <= record.totalBytes

\* C24: while an operation waits for a host call that never returns, the rest
\* goes on: the timer fires and a later tick runs to its last step, the write of
\* the downloads; the start of a download is handled as soon as the host emits
\* it; a message is taken as soon as the popup sends it and is answered unless
\* its own host call never returns.
C24_HangBlocksOnlyItsOwnOperation ==
    /\ (suspended # {} /\ ~TickAtLastStep) ~> TickAtLastStep
    /\ (suspended # {} /\ message.phase = "awaiting")
          ~> (message.phase \in {"finished", "suspended"})
    /\ [](suspended # {} /\ CanWrite /\ hostDownloads = {} =>
             \A item \in MonitorItems : ENABLED onDownloadCreated(item))
    /\ [](suspended # {} /\ message.phase # "awaiting" =>
             \A request \in HangRequests : ENABLED handleMessage(request))
    /\ [][suspended # {} /\ (\E i \in 1..MaxTicksInFlight : TickQueryReturns(i, Steady))
             => downloadStats' = CleanupDownloads(downloadStats, now)]_vars

\* A tick has waited for its listing since the start, when download 1 began; 25
\* hours later another tick has evicted the record of the download, written the
\* tab records and issued the write of the downloads, and a message has its answer.
C24_Witness ==
    /\ Waiting("tick", "tabs.query", StartTime) \in suspended
    /\ now > StartTime
    /\ hostDownloads = {1}
    /\ storage["downloadStats"].present /\ storage["downloadStats"].value # << >>
    /\ downloadStats = EmptyMap
    /\ pendingWrites = <<[key |-> "downloadStats", value |-> << >>]>>
    /\ ticks = << >>
    /\ message.phase = "finished"
    /\ message.responses = <<[success |-> TRUE]>>

\* C25: a tab-created event for id t leaves in tabStats, under t, the record with
\* the event's title and url, createdAt = now, memoryUsage = 0 and cpuUsage = 0
\* and no other field, whatever tabStats held under t before, and leaves the
\* records of the other ids as they were.
C25_CreatedRecordReplacesAnyEarlier ==
    [][\A t \in TabIds, page \in Pages :
          onTabCreated(t, page) =>
             /\ DOMAIN tabStats' = DOMAIN tabStats \cup {t}
             /\ tabStats'[t] = [id |-> t, title |-> page.title, url |-> page.url,
                                createdAt |-> now, memoryUsage |-> 0, cpuUsage |-> 0]
             /\ \A u \in DOMAIN tabStats \ {t} : tabStats'[u] = tabStats[u]]_vars

\* Another context stored a record of tab 2 (title B, created 23 hours before,
\* cpuUsage 99), the process reloaded it, and then tab 2 was created showing
\* page A: the record is the new one, its write on the way.
C25_Witness ==
    /\ storage["tabStats"] = Stored(<<<<2, ForeignTab(2)>>>>)
    /\ pendingChanges = << >>
    /\ MapHas(tabStats, 2)
    /\ tabStats[2] = [id |-> 2, title |-> PageA.title, url |-> PageA.url,
                     createdAt |-> now, memoryUsage |-> 0, cpuUsage |-> 0]
    /\ pendingWrites = <<[key |-> "tabStats", value |-> Entries(tabStats)]>>

\* C26: the settings key changes only when a write issued by the install
\* notification with reason 'install' completes, and then to {autoRefresh: true,
\* refreshInterval: 5000, showNotifications: true}; only that notification
\* issues a write of the key, and a notification with another reason, a startup
\* notification, a lifecycle event, a tick or a message issues none.
SettingsWrites(writes) == {j \in 1..Len(writes) : writes[j].key = "settings"}

C26_SettingsWrittenOnlyOnInstall ==
    [][/\ storage'["settings"] # storage["settings"] =>
             /\ pendingWrites # << >>
             /\ Head(pendingWrites) = [key |-> "settings", value |-> InstallSettings]
             /\ storage'["settings"] = Stored(InstallSettings)
       /\ Cardinality(SettingsWrites(pendingWrites'))
             > Cardinality(SettingsWrites(pendingWrites)) => onInstalled("install")
       /\ \A reason \in InstallReasons \ {"install"} :
             onInstalled(reason) => pendingWrites' = pendingWrites
       /\ onStartup => pendingWrites' = pendingWrites
       /\ \A j \in SettingsWrites(pendingWrites') :
             pendingWrites'[j].value = InstallSettings]_vars

\* The settings of the install are stored, and tab 2 has been created and its
\* record written since.
C26_Witness ==
    /\ storage["settings"] = Stored(InstallSettings)
    /\ storage["tabStats"].present
    /\ storage["tabStats"].value # << >>

\* C27: formatTime gives a time below 60 seconds in whole seconds with 's', a
\* time from 60 seconds and below 3600 in whole minutes with 'm', and a time from
\* 3600 seconds in whole hours with 'h'; the whole number is the one nearest to the
\* time in that unit.
Nearest(value, seconds, unit) ==
    LET distance == value * unit * seconds[2] - seconds[1]
    IN /\ 2 * distance <= unit * seconds[2]
       /\ 2 * distance >= 0 - unit * seconds[2]

C27_FormatTimeByRange ==
    formatted.text # NotCalled.text =>
       LET seconds == formatted.seconds
           text == formatted.text
       IN IF Less(seconds, 60)
          THEN text.unit = "s" /\ Nearest(text.value, seconds, 1)
          ELSE IF Less(seconds, 3600)
          THEN text.unit = "m" /\ Nearest(text.value, seconds, 60)
          ELSE text.unit = "h" /\ Nearest(text.value, seconds, 3600)

\* formatTime(90) has returned '2m'.
C27_Witness ==
    /\ formatted.seconds = <<90, 1>>
    /\ formatted.text = Text(2, "m")

\* C28: the notification of a write of the process itself, delivered after later
\* events were handled, takes nothing of those events away: once every write has
\* completed and every notification is delivered, tabStats holds no record that
\* a later tab-removed event took out, and downloadStats holds the record of
\* every download that started.
C28_NoUpdateLostToOwnEcho ==
    scenario # "storage" /\ Quiescent /\ NoWriteRejected =>
       /\ closedTabs \cap DOMAIN tabStats = {}
       /\ hostDownloads \subseteq DOMAIN downloadStats

\* C29: a monitoring tick adds no id to tabStats or downloadStats; and a tab that
\* was in the listing the tick asked for and was removed while the tick waited for
\* it gets no record from the tick, nor a change to a record.
C29_TickLeavesRemovedTabsAlone ==
    [][\A i \in 1..MaxTicksInFlight, jitter \in [TabIds -> Jitter] :
          TickQueryReturns(i, jitter) =>
             /\ DOMAIN tabStats' \subseteq DOMAIN tabStats
             /\ DOMAIN downloadStats' \subseteq DOMAIN downloadStats
             /\ \A t \in ticks[i].tabs \cap closedTabs :
                   \/ t \notin DOMAIN tabStats'
                   \/ t \in DOMAIN tabStats /\ tabStats'[t] = tabStats[t]]_vars

C31_StoresAreIndependent ==
    [][/\ TabEvents(TabIds, Pages, Pages, {"loading", "complete"})
             => downloadStats' = downloadStats
       /\ DownloadEvents(DownloadItems, DownloadDeltas) => tabStats' = tabStats
       /\ onStorageChanged =>
             LET n == Head(pendingChanges)
             IN /\ n.key # "tabStats" => tabStats' = tabStats
                /\ n.key # "downloadStats" => downloadStats' = downloadStats
                /\ n.namespace # "local" =>
                      tabStats' = tabStats /\ downloadStats' = downloadStats]_vars

\* Both stores hold a record, and the storage area holds what another context
\* put under both keys of an area: tab events, download events and
\* notifications of either key and of the sync area have come in between.
C31_Witness ==
    /\ DOMAIN tabStats = {2}
    /\ DOMAIN downloadStats = {1}
    /\ hostTabs = {1, 2}
    /\ hostDownloads = {1}
    /\ tabStats[2] = ForeignTab(2)
    /\ Field(downloadStats[1], "createdAt") = StartTime

\* C32: a monitoring tick whose tab listing fails changes nothing: it updates no
\* record, evicts no stale tab or download and issues no storage write, and the
\* callback of that firing is over; the work is left to a later tick.
C32_FailedListingChangesNothing ==
    [][\A i \in 1..MaxTicksInFlight :
          TickQueryFails(i) =>
             /\ tabStats' = tabStats
             /\ downloadStats' = downloadStats
             /\ pendingWrites' = pendingWrites
             /\ storage' = storage
             /\ ticks' = RemoveAt(ticks, i)]_vars

\* A day after tab 2 was created a listing has failed: the stale record of tab 2
\* is still in the store, never refreshed, no tick is running and no write is
\* on its way.
C32_Witness ==
    /\ "Error in monitoring loop:" \in console
    /\ now = StartTime + ClockStep
    /\ DOMAIN tabStats = {2}
    /\ IsStaleTab(tabStats[2], now)
    /\ ~Has(tabStats[2], "lastSeen")
    /\ ticks = << >>
    /\ pendingWrites = << >>

\* C33: a tab that has a record and is in the listing a monitoring tick receives
\* is not evicted by the cleanup of that tick, however old its createdAt or its
\* earlier lastSeen is: it has a record after the tick, with lastSeen = now.
C33_ListedTrackedTabIsNotEvicted ==
    [][\A i \in 1..MaxTicksInFlight, jitter \in [TabIds -> Jitter] :
          TickQueryReturns(i, jitter) =>
             \A t \in ticks[i].tabs \cap DOMAIN tabStats :
                /\ t \in DOMAIN tabStats'
                /\ Field(tabStats'[t], "lastSeen") = now]_vars

\* Tab 2 was created a day ago and was not seen since; a tick has listed it and
\* its record is still in the store, seen now.
C33_Witness ==
    /\ now = StartTime + ClockStep
    /\ hostTabs = {1, 2}
    /\ DOMAIN tabStats = {2}
    /\ Field(tabStats[2], "createdAt") = StartTime
    /\ IsStaleTabByCreation(tabStats[2], now)
    /\ Field(tabStats[2], "lastSeen") = now
    /\ Len(ticks) = 1
    /\ ticks[1].pc = "tabsWritten"

\* C34: message handling reads the tracked state and does not change it: no
\* step of handleMessage, for a query, a command or an unknown action, changes
\* tabStats or downloadStats or issues a storage write; a step that changes a
\* store is a lifecycle event, a step of a monitoring tick or a storage change
\* notification.
C34_MessagesLeaveTheStoresAlone ==
    [][/\ message' # message =>
             /\ tabStats' = tabStats
             /\ downloadStats' = downloadStats
             /\ pendingWrites' = pendingWrites
             /\ storage' = storage
       /\ tabStats' # tabStats \/ downloadStats' # downloadStats =>
             \/ TabEvents(TabIds, Pages, Pages, {"loading", "complete"})
             \/ DownloadEvents(DownloadItems, DownloadDeltas)
             \/ Monitoring
             \/ onStorageChanged]_vars

\* getTabStats has been answered with the entry of tab 2 while tabStats holds
\* the record of tab 2, as it was created.
C34_Witness ==
    /\ message.request.action = "getTabStats"
    /\ Len(message.responses) = 1
    /\ message.responses[1].success
    /\ DOMAIN tabStats = {2}
    /\ tabStats[2] = TabCreatedRecord([id |-> 2, title |-> "A", url |-> "u1"], StartTime)
    /\ hostTabs = {1, 2}

====
